---- MODULE Spec2Model ----
(***************************************************************************)
(* The level-ID extraction pipeline of the Geometry Dash Discord bot:      *)
(* extractAndValidateLevelId (services/levelIdExtractor.js) and the        *)
(* services it awaits (YouTube metadata, OpenAI extraction, GDBrowser      *)
(* lookup with retry, GDBrowser name search with fallback variations).     *)
(*                                                                         *)
(* One run of the pipeline is a sequential async function; every action    *)
(* below is the code between two suspension points (await) of that run.    *)
(***************************************************************************)
EXTENDS Integers, Sequences, FiniteSets, TLC

----------------------------------------------------------------------------
(* Bounds of the model *)

\* longest video text, in tokens
MaxTokens == 2

\* longest result list of a name search
MaxResults == 2
\* longest list of level names the AI returns
MaxNames == 2
\* the most tokens in a text given to extractPotentialLevelIds on its own
MaxTextLen == 3
\* the largest retries given to getLevelInfoWithRetry on its own
MaxRetries == 5
\* the most tokens in the content of a message
MaxContent == 4
\* the most words in a name given to generateNameVariations on its own
MaxNameWords == 3
\* the largest rate the environment configures besides the defaults
MaxSmallRate == 2
\* the calls of schedule() beyond maxConcurrent
ExtraJobs == 1

(* Program constants *)

\* messageHandler.js line 7
MAX_VIDEOS_PER_MESSAGE == 3

\* getLevelInfoWithRetry(levelId, retries = 3)
Retries == 3
\* base of the exponential backoff, in ms
BaseDelay == 1000

----------------------------------------------------------------------------
(* JavaScript values *)

\* option values: null/undefined is the empty sequence
None == <<>>
Some(x) == <<x>>
Get(o) == o[1]

\* the null levelId of the AI response
NullId == "null"
\* JS truthiness of a string|null levelId (line 205: aiResult.levelId && ...)
Truthy(s) == s # NullId /\ s # ""

\* mutant: nothing is remembered as seen
Dedup_KeepsAll(xs, seen) == xs

RECURSIVE Dedup(_, _)
\* [...new Set(xs)]: first occurrences, in order; seen is the set so far
Dedup(xs, seen) ==
  IF xs = <<>> THEN <<>>
  ELSE IF Head(xs) \in seen THEN Dedup(Tail(xs), seen)
       ELSE <<Head(xs)>> \o Dedup(Tail(xs), seen \cup {Head(xs)})

Range(s) == {s[i] : i \in 1..Len(s)}

\* Array.prototype.includes
Includes(xs, x) == x \in Range(xs)

RECURSIVE SeqsUpTo(_, _)
\* all sequences over S of length at most n
SeqsUpTo(S, n) ==
  IF n = 0 THEN {<<>>}
  ELSE LET shorter == SeqsUpTo(S, n - 1)
       IN shorter \cup {Append(s, x) : s \in {t \in shorter : Len(t) = n - 1}, x \in S}

----------------------------------------------------------------------------
(* Video text and the regex stage (utils/regexPatterns.js)                 *)
(*                                                                         *)
(* The combined text is a sequence of whitespace-separated tokens.  A      *)
(* token is a word without digits or a digit run num in one of the         *)
(* surroundings the patterns distinguish:                                  *)
(*   label  "ID: num" / "Level ID num"      paren  "(num)"                 *)
(*   hash   "#num"                          bare   "num"                   *)
(*   idword "valid num" / "Android" glued to num: a word that ends in the  *)
(*          letters id, then the digit run                                 *)

Kinds == {"label", "idword", "paren", "hash", "bare", "word"}

\* /(?:level\s*)?id[:\s#=]*(\d{6,9})\b/gi
\* the pattern has no \b before "id": the end of any word ending in id
\* matches as well
MatchLabel(t) == t.kind \in {"label", "idword"} /\ Len(t.num) \in 6..9
\* /\((\d{6,9})\)/g
MatchParen(t) == t.kind = "paren" /\ Len(t.num) \in 6..9
\* /#(\d{6,9})\b/g
MatchHash(t) == t.kind = "hash" /\ Len(t.num) \in 6..9
\* /\b(\d{8,9})\b/g : any digit run between word boundaries
MatchStandalone(t) == t.kind # "word" /\ Len(t.num) \in 8..9
\* LOOSE_LEVEL_ID_PATTERN /\b(\d{6,7})\b/g
MatchLoose(t) == t.kind # "word" /\ Len(t.num) \in 6..7

\* LEVEL_ID_PATTERNS, in priority order
Matches(p, t) ==
  CASE p = 1 -> MatchLabel(t)
    [] p = 2 -> MatchParen(t)
    [] p = 3 -> MatchHash(t)
    [] p = 4 -> MatchStandalone(t)
    [] OTHER -> MatchLoose(t)

RECURSIVE Scan(_, _)
\* while ((match = regex.exec(text)) !== null): match[1] left to right
Scan(p, text) ==
  IF text = <<>> THEN <<>>
  ELSE (IF Matches(p, Head(text)) THEN <<Head(text).num>> ELSE <<>>)
       \o Scan(p, Tail(text))

StrictIds(text) ==
  Dedup(Scan(1, text) \o Scan(2, text) \o Scan(3, text) \o Scan(4, text), {})

\* mutant: the loose pattern is applied whatever the strict patterns found
extractPotentialLevelIds_AlwaysLoose(text) ==
  Dedup(StrictIds(text) \o Scan(5, text), {})

extractPotentialLevelIds(text) ==
  IF StrictIds(text) # <<>> THEN StrictIds(text)
  ELSE Dedup(Scan(5, text), {})

----------------------------------------------------------------------------
(* Level names and generateNameVariations (services/gdbrowserService.js)   *)
(*                                                                         *)
(* A name is the sequence of its whitespace-separated words; the empty     *)
(* sequence is the empty string.                                           *)

\* /^(Beating|100%|All Coins?|Completed?|Verified?|)\s+/i, one-word alternatives
PrefixWords == {"Beating", "100%", "Complete", "Completed", "Verifie", "Verified"}
\* /\s+(Geometry Dash|GD|Level|Demon)$/i, one-word alternatives
SuffixWords == {"GD", "Level", "Demon"}
\* separators = [' X ', ' x ', ' & ', ' and ', ' vs ', ' VS ', ' - ', '|']
SpacedSeparators == <<"X", "x", "&", "and", "vs", "VS", "-">>
Bar == "|"

StripPrefix(name) ==
  IF Len(name) >= 3 /\ name[1] = "All" /\ name[2] \in {"Coin", "Coins"}
    THEN SubSeq(name, 3, Len(name))
  ELSE IF Len(name) >= 2 /\ name[1] \in PrefixWords
    THEN Tail(name)
  ELSE name

StripSuffix(name) ==
  IF Len(name) >= 3 /\ name[Len(name) - 1] = "Geometry" /\ name[Len(name)] = "Dash"
    THEN SubSeq(name, 1, Len(name) - 2)
  ELSE IF Len(name) >= 2 /\ name[Len(name)] \in SuffixWords
    THEN SubSeq(name, 1, Len(name) - 1)
  ELSE name

\* levelName.includes(' w '): w stands between two other words
IncludesSpaced(name, w) == \E i \in 2..(Len(name) - 1) : name[i] = w

RECURSIVE SplitSpaced(_, _, _, _, _)
\* levelName.split(' w ').map(trim): a match consumes the space on both
\* sides, so the word right after a match cannot itself be matched
SplitSpaced(name, w, i, cur, free) ==
  IF i > Len(name) THEN <<cur>>
  ELSE IF name[i] = w /\ i > 1 /\ i < Len(name) /\ free
    THEN <<cur>> \o SplitSpaced(name, w, i + 1, <<>>, FALSE)
  ELSE SplitSpaced(name, w, i + 1, Append(cur, name[i]), TRUE)

RECURSIVE SplitBar(_, _, _)
\* levelName.split('|').map(trim): parts may be empty
SplitBar(name, i, cur) ==
  IF i > Len(name) THEN <<cur>>
  ELSE IF name[i] = Bar THEN <<cur>> \o SplitBar(name, i + 1, <<>>)
  ELSE SplitBar(name, i + 1, Append(cur, name[i]))

RECURSIVE SeparatorParts(_, _)
\* for (const sep of separators) if (includes(sep)) variations.push(...parts)
SeparatorParts(name, k) ==
  IF k > Len(SpacedSeparators)
    THEN (IF Includes(name, Bar) THEN SplitBar(name, 1, <<>>) ELSE <<>>)
  ELSE (IF IncludesSpaced(name, SpacedSeparators[k])
          THEN SplitSpaced(name, SpacedSeparators[k], 1, <<>>, TRUE)
          ELSE <<>>)
       \o SeparatorParts(name, k + 1)

NonEmpty(v) == Len(v) > 0

\* mutant: the parts of the splits are not added
generateNameVariations_NoSplit(levelName) ==
  LET cleanedName == StripSuffix(StripPrefix(levelName))
      variations == <<levelName>>
                    \o (IF cleanedName # levelName THEN <<cleanedName>> ELSE <<>>)
  IN SelectSeq(Dedup(variations, {}), NonEmpty)

generateNameVariations(levelName) ==
  LET cleanedName == StripSuffix(StripPrefix(levelName))
      variations == <<levelName>>
                    \o (IF cleanedName # levelName THEN <<cleanedName>> ELSE <<>>)
                    \o SeparatorParts(levelName, 1)
  IN SelectSeq(Dedup(variations, {}), NonEmpty)

RECURSIVE AllVariations(_)
\* for (const name of levelNames) allVariations.push(...generateNameVariations(name))
AllVariations(levelNames) ==
  IF levelNames = <<>> THEN <<>>
  ELSE generateNameVariations(Head(levelNames)) \o AllVariations(Tail(levelNames))

\* mutant: the names already tried are not filtered out
UniqueVariations_Unfiltered(levelNames) ==
  Dedup(AllVariations(levelNames), {})

\* [...new Set(allVariations)].filter(v => !levelNames.includes(v))
UniqueVariations(levelNames) ==
  LET NotProvided(v) == ~Includes(levelNames, v)
  IN SelectSeq(Dedup(AllVariations(levelNames), {}), NotProvided)

----------------------------------------------------------------------------
(* Inputs of one run: what the external services may answer *)

\* level IDs: one of 6 digits, two of 8 digits
Ids == {"100001", "10565740", "77777777"}

\* tokens of the video texts the pipeline is run on
PipelineTokens ==
  { [kind |-> "label", num |-> "10565740"],
    [kind |-> "paren", num |-> "100001"],
    [kind |-> "bare", num |-> "100001"] }

\* getVideoMetadata: { title, description, channelTitle, tags } of the snippet
Metadatas ==
  { [title |-> IF Len(t) >= 1 THEN <<t[1]>> ELSE <<>>,
     description |-> IF Len(t) >= 2 THEN <<t[2]>> ELSE <<>>,
     channelTitle |-> "channel",
     tags |-> IF Len(t) >= 3 THEN SubSeq(t, 3, Len(t)) ELSE <<>>] :
      t \in SeqsUpTo(PipelineTokens, MaxTokens) }

\* `${metadata.title} ${metadata.description} ${metadata.tags.join(' ')}`
CombinedText(m) == m.title \o m.description \o m.tags

Confidences == {"high", "medium", "low"}

\* LevelIdResponseSchema.parse(...): an object of exactly the keys levelId,
\* confidence and reasoning (zod drops every other key, so levelNames is
\* undefined on the value the caller receives)
SchemaValues ==
  [levelId : {NullId, ""} \cup Ids, confidence : Confidences,
   reasoning : {"reasoning"}, hasNames : {FALSE}, levelNames : {<<>>}]

\* names the semantic extractor may report
NamePool ==
  { <<"Sunshine", "X", "Slaughterhouse">>,
    <<"Sunshine">> }

\* the semantic extractor the orchestrator is written against: its value
\* also carries the list levelNames (possibly empty)
NamedValues ==
  [levelId : {NullId, ""} \cup Ids, confidence : Confidences,
   reasoning : {"reasoning"}, hasNames : {TRUE},
   levelNames : SeqsUpTo(NamePool, MaxNames)]

\* what extractLevelIdWithAI resolves to
SemanticValues == SchemaValues \cup NamedValues

\* the record GDBrowser holds for a level
LevelRecord(id) == [id |-> id, name |-> "level"]
Records == {LevelRecord(id) : id \in Ids}

----------------------------------------------------------------------------
(* ExtractionResult *)

Success(levelId, levelInfo, stage, ai, searchedNames, meta) ==
  [success |-> TRUE, error |-> "none", levelId |-> levelId,
   levelInfo |-> Some(levelInfo), stage |-> stage,
   aiConfidence |-> IF ai = None THEN "none" ELSE Get(ai).confidence,
   aiReasoning |-> IF ai = None THEN "none" ELSE Get(ai).reasoning,
   searchedNames |-> searchedNames, metadata |-> Some(meta)]

Failure(error, metadata) ==
  [success |-> FALSE, error |-> error, levelId |-> "",
   levelInfo |-> None, stage |-> "none", aiConfidence |-> "none",
   aiReasoning |-> "none", searchedNames |-> None, metadata |-> metadata]

----------------------------------------------------------------------------
(* State of one run of extractAndValidateLevelId *)

VARIABLES
  pc,          \* where the run is suspended, or "done" / "threw"
  metadata,    \* let metadata (None until fetched)
  regexIds,    \* const regexIds
  idx,         \* position of the for loop over regexIds
  aiResult,    \* let aiResult = null
  result,      \* the value the run returned (None while running)
  lookupId,    \* getLevelInfoWithRetry: levelId
  caller,      \* getLevelInfoWithRetry: the stage awaiting it
  attempt,     \* getLevelInfoWithRetry: loop variable i
  waits,       \* getLevelInfoWithRetry: delays slept so far in this call
  retries,     \* getLevelInfoWithRetry: the parameter retries
  directResult,\* what getLevelInfoWithRetry returned to a direct caller
  sPhase,      \* searchLevelByNameWithFallback: "names" or "variations" loop
  sList,       \* searchLevelByNameWithFallback: the list being iterated
  sIdx,        \* searchLevelByNameWithFallback: position in sList
  inflight,    \* external calls issued and not yet settled
  lookups,     \* history: the getLevelInfoWithRetry calls of the run, in order
  aiCalls,     \* history: number of extractLevelIdWithAI calls
  searched,    \* history: the strings given to searchLevelByName, in order
  returned,    \* history: the records GDBrowser returned, with the request
  last         \* history: the external call settled last and its outcome

(* State of one call of a pure function on its own *)

VARIABLES
  extractText, \* extractPotentialLevelIds: the argument text
  extracted,   \* extractPotentialLevelIds: the array returned (None before)
  nameArg,     \* generateNameVariations: the argument levelName
  variationsOut, \* generateNameVariations: the array returned (None before)
  authorityCall, \* getLevelInfo / searchLevelByName: which of the two is called
  response,    \* getLevelInfo / searchLevelByName: how axios.get settles
  settled      \* getLevelInfo / searchLevelByName: how the call settles (None before)

runVars == <<pc, metadata, regexIds, idx, aiResult, result, lookupId, caller,
             attempt, waits, retries, directResult, sPhase, sList, sIdx, inflight, lookups, aiCalls,
             searched, returned, last>>

extractVars == <<extractText, extracted, nameArg, variationsOut,
                 authorityCall, response, settled>>

(* State of one limiter of utils/rateLimiter.js and of the jobs given to   *)
(* its schedule()                                                          *)

VARIABLES
  dep,          \* which limiter: "youtube", "openai" or "gdbrowser"
  capacity,     \* config.rateLimits[dep]
  reservoir,    \* tokens left in the reservoir
  running,      \* the limiter's count of jobs in flight
  jobs,         \* the jobs scheduled so far, in arrival order
  nextRequestIn,\* ms until minTime allows the next job to start
  clock,        \* ms since the reservoir was last (re)filled
  windowAdmits, \* history: jobs admitted since the reservoir was last filled
  released,     \* history: per job, how often it gave its permit back
  lastOutcome,  \* history: how the job that finished last ended
  sinceStart    \* history: ms since a job last started, counted up to minTime

limiterVars == <<dep, capacity, reservoir, running, jobs, nextRequestIn, clock,
                 windowAdmits, released, lastOutcome, sinceStart>>

(* State of one call of handleMessage (handlers/messageHandler.js) *)

VARIABLES
  hPc,          \* where handleMessage is suspended, "end" once it returned
  message,      \* the message: author.bot and the tokens of content
  videoIds,     \* const videoIds
  hIdx,         \* position of the for loop over videosToProcess
  started,      \* history: the video ids given to extractAndValidateLevelId
  replied,      \* history: the video ids a level embed was replied for
  hResult       \* const result of the loop body: "none" until the run resolved

handlerVars == <<hPc, message, videoIds, hIdx, started, replied, hResult>>

\* what a step of the run leaves alone
outside == <<extractVars, limiterVars, handlerVars>>

vars == <<runVars, extractVars, limiterVars, handlerVars>>

retryVars == <<lookupId, caller, attempt, waits, retries, directResult>>
searchVars == <<sPhase, sList, sIdx>>

RunInit ==
  /\ pc = "start"
  /\ metadata = None
  /\ regexIds = <<>>
  /\ idx = 0
  /\ aiResult = None
  /\ result = None
  /\ lookupId = ""
  /\ caller = "none"
  /\ attempt = 0
  /\ waits = <<>>
  /\ retries = Retries
  /\ directResult = None
  /\ sPhase = "none"
  /\ sList = <<>>
  /\ sIdx = 0
  /\ inflight = <<>>
  /\ lookups = <<>>
  /\ aiCalls = 0
  /\ searched = <<>>
  /\ returned = {}
  /\ last = [call |-> "none", outcome |-> "none"]

\* JavaScript values of a response body: null, the empty string ("empty"),
\* any other string, an object (one level record) and an array of level
\* records
JsNull == [type |-> "null", items |-> <<>>]
JsObject(rec) == [type |-> "object", items |-> <<rec>>]
JsArray(recs) == [type |-> "array", items |-> recs]

\* the error axios.get rejects with: error.response.status where the server
\* answered, no error.response on a network error or a timeout
HttpError(status) == [hasResponse |-> TRUE, status |-> status]
NetworkError == [hasResponse |-> FALSE, status |-> 0]
NoError == [hasResponse |-> FALSE, status |-> 200]

\* axios.get has not been called
NoResponse == [ok |-> FALSE, data |-> JsNull, error |-> NoError]

\* no call of a pure function on its own
NoExtract ==
  /\ extractText = <<>>
  /\ extracted = None
  /\ nameArg = <<>>
  /\ variationsOut = None
  /\ authorityCall = "none"
  /\ response = NoResponse
  /\ settled = None

\* no limiter under observation
NoLimiter ==
  /\ dep = "none"
  /\ capacity = 0
  /\ reservoir = 0
  /\ running = 0
  /\ jobs = <<>>
  /\ nextRequestIn = 0
  /\ clock = 0
  /\ windowAdmits = 0
  /\ released = <<>>
  /\ lastOutcome = "none"
  /\ sinceStart = 0

\* no message under observation
NoHandler ==
  /\ hPc = "none"
  /\ message = [bot |-> FALSE, content |-> <<>>]
  /\ videoIds = <<>>
  /\ hIdx = 0
  /\ started = <<>>
  /\ replied = <<>>
  /\ hResult = "none"

Init == RunInit /\ NoExtract /\ NoLimiter /\ NoHandler

----------------------------------------------------------------------------
(* Continuations: the synchronous code the run executes after an await     *)
(* settles, up to the next await or to its return.  infl and lks are the   *)
(* in-flight calls and the lookup history once the settled call is taken   *)
(* into account.                                                           *)

\* return <result>
Return(res, infl, lks) ==
  /\ pc' = "done"
  /\ result' = Some(res)
  /\ inflight' = infl
  /\ lookups' = lks
  /\ UNCHANGED <<retryVars, searchVars, aiCalls, searched>>

\* an exception leaves the function
Throw(infl, lks) ==
  /\ pc' = "threw"
  /\ inflight' = infl
  /\ lookups' = lks
  /\ UNCHANGED <<result, retryVars, searchVars, aiCalls, searched>>

\* await gdbrowserService.getLevelInfoWithRetry(id): first attempt, i = 0
CallLookupN(id, n, who, infl, lks) ==
  /\ pc' = "lookup"
  /\ lookupId' = id
  /\ caller' = who
  /\ retries' = n
  /\ attempt' = 0
  /\ waits' = <<>>
  /\ directResult' = None
  /\ inflight' = Append(infl, [call |-> "level", arg |-> id])
  /\ lookups' = Append(lks, [id |-> id, stage |-> who, res |-> "pending"])
  /\ UNCHANGED <<result, searchVars, aiCalls, searched>>

\* getLevelInfoWithRetry(id): retries takes its default
CallLookup(id, who, infl, lks) == CallLookupN(id, Retries, who, infl, lks)

\* await openaiService.extractLevelIdWithAI(title, description, channelTitle)
CallAI(infl, lks) ==
  /\ pc' = "ai"
  /\ aiCalls' = aiCalls + 1
  /\ inflight' = Append(infl, [call |-> "ai", arg |-> ""])
  /\ lookups' = lks
  /\ UNCHANGED <<result, retryVars, searchVars, searched>>

\* await searchLevelByName(list[i]) inside searchLevelByNameWithFallback
CallSearch(phase, list, i, infl, lks) ==
  /\ pc' = "search"
  /\ sPhase' = phase
  /\ sList' = list
  /\ sIdx' = i
  /\ searched' = Append(searched, list[i])
  /\ inflight' = Append(infl, [call |-> "search", arg |-> list[i]])
  /\ lookups' = lks
  /\ UNCHANGED <<result, retryVars, aiCalls>>

\* line 264: the summary log reads aiResult.levelNames.join(', ') whenever
\* aiResult is set; on a value without levelNames that is a TypeError,
\* raised outside every try block
SummaryThrows(ai) == ai # None /\ ~Get(ai).hasNames

\* lines 262-269
Finish(ai, meta, infl, lks) ==
  IF SummaryThrows(ai)
    THEN Throw(infl, lks)
    ELSE Return(Failure("NO_LEVEL_ID_FOUND", Some(meta)), infl, lks)

\* mutant: the confidence is not checked before the name search
ShouldSearchNames_AnyConfidence(ai) ==
  /\ ai # None
  /\ Get(ai).hasNames
  /\ Len(Get(ai).levelNames) > 0

\* line 233
ShouldSearchNames(ai) ==
  /\ ai # None
  /\ Get(ai).hasNames
  /\ Len(Get(ai).levelNames) > 0
  /\ Get(ai).confidence # "low"

\* lines 232-260: stage 3, then the end of the function
Stage3(ai, meta, infl, lks) ==
  IF ShouldSearchNames(ai)
    THEN CallSearch("names", Get(ai).levelNames, 1, infl, lks)
    ELSE Finish(ai, meta, infl, lks)

\* mutant: the candidates are validated last to first
RegexLoop_Reversed(i, ids, infl, lks) ==
  IF i <= Len(ids)
    THEN CallLookup(ids[Len(ids) + 1 - i], "regex", infl, lks)
    ELSE CallAI(infl, lks)

\* mutant: the loop ends one candidate early
RegexLoop_SkipsLast(i, ids, infl, lks) ==
  IF i < Len(ids)
    THEN CallLookup(ids[i], "regex", infl, lks)
    ELSE CallAI(infl, lks)

\* line 171: for (const id of regexIds), then line 196
RegexLoop(i, ids, infl, lks) ==
  IF i <= Len(ids)
    THEN CallLookup(ids[i], "regex", infl, lks)
    ELSE CallAI(infl, lks)

----------------------------------------------------------------------------
(* Actions: one per settled await *)

\* the limiter whose schedule() wraps the request of an external call:
\* openaiService.js line 112 (getVideoMetadata) and line 24
\* (extractLevelIdWithAI), gdbrowserService.js line 12 (getLevelInfo) and
\* line 71 (searchLevelByName)
LimiterOf(c) ==
  CASE c.call = "metadata" -> "youtube"
    [] c.call = "ai" -> "openai"
    [] c.call = "level" -> "gdbrowser"
    [] c.call = "search" -> "gdbrowser"

\* mutant: a call that settled stays in flight
Without_KeepsAll(calls, c) == calls

RECURSIVE Without(_, _)
\* the in-flight calls once call c has settled: its job has ended and the
\* permit is given back
Without(calls, c) ==
  IF calls = <<>> THEN <<>>
  ELSE IF Head(calls) = c THEN Tail(calls)
  ELSE <<Head(calls)>> \o Without(Tail(calls), c)

\* the lookup history once the running call has returned res
Marked(lks, res) == [lks EXCEPT ![Len(lks)].res = res]

\* line 149: await youtubeService.getVideoMetadata(videoId)
StartRun ==
  /\ pc = "start"
  /\ UNCHANGED outside
  /\ pc' = "metadata"
  /\ inflight' = Append(inflight, [call |-> "metadata", arg |-> ""])
  /\ UNCHANGED <<metadata, regexIds, idx, aiResult, result, retryVars,
                 searchVars, lookups, aiCalls, searched, returned, last>>

\* mutant: the run goes on without metadata and line 159 reads
\* metadata.title of null
NoMetadata_FallsThrough(infl) ==
  Throw(infl, lookups)

\* lines 150-157: the catch block and if (!metadata)
NoMetadata(infl) ==
  Return(Failure("VIDEO_NOT_FOUND", None), infl, lookups)

\* lines 148-190: the metadata call settles; on metadata the regex stage
\* starts
MetadataSettles ==
  /\ pc = "metadata"
  /\ UNCHANGED outside
  /\ LET infl == Without(inflight, [call |-> "metadata", arg |-> ""]) IN
     \/ \E outcome \in {"error", "null"} :
          /\ last' = [call |-> "metadata", outcome |-> outcome]
          /\ NoMetadata(infl)
          /\ UNCHANGED <<metadata, regexIds, idx>>
     \/ \E m \in Metadatas :
          /\ last' = [call |-> "metadata", outcome |-> "ok"]
          /\ metadata' = Some(m)
          /\ regexIds' = extractPotentialLevelIds(CombinedText(m))
          /\ idx' = 1
          /\ RegexLoop(1, regexIds', infl, lookups)
  /\ UNCHANGED <<aiResult, returned>>

\* line 175 / line 210: if (levelInfo)
IsValid(levelInfo) == levelInfo # None

\* mutant: the first candidate is reported, not the validated one
RegexSuccess_FirstCandidate(levelInfo) ==
  Success(regexIds[1], levelInfo, "regex", None, None, Get(metadata))

\* lines 177-183
RegexSuccess(levelInfo) ==
  Success(regexIds[idx], levelInfo, "regex", None, None, Get(metadata))

\* lines 212-220
AISuccess(levelInfo) ==
  Success(Get(aiResult).levelId, levelInfo, "ai", aiResult, None, Get(metadata))

\* lines 175-190 and 210-260: getLevelInfoWithRetry returned levelInfo to
\* the stage that awaited it, or to its direct caller
AfterLookup(levelInfo, infl, lks) ==
  IF caller = "regex"
    THEN IF IsValid(levelInfo)
           THEN /\ Return(RegexSuccess(Get(levelInfo)), infl, lks)
                /\ UNCHANGED idx
           ELSE /\ idx' = idx + 1
                /\ RegexLoop(idx + 1, regexIds, infl, lks)
  ELSE IF caller = "ai"
    THEN /\ UNCHANGED idx
         /\ IF IsValid(levelInfo)
              THEN Return(AISuccess(Get(levelInfo)), infl, lks)
              ELSE Stage3(aiResult, Get(metadata), infl, lks)
  ELSE /\ pc' = "returned"
       /\ directResult' = Some(levelInfo)
       /\ inflight' = infl
       /\ lookups' = lks
       /\ UNCHANGED <<idx, result, lookupId, caller, attempt, waits, retries,
                      searchVars, aiCalls, searched>>

\* mutant: getLevelInfo rethrows on 404 as well
Propagates_NotFoundToo(outcome) == outcome \in {"notfound", "error"}

\* gdbrowserService.js lines 20-26: getLevelInfo returns null on status 404
\* and rethrows any other error
Propagates(outcome) == outcome = "error"

\* mutant: one attempt more than retries
LastAttempt_OneMore(i) == i = retries

\* gdbrowserService.js line 52: if (i === retries - 1)
LastAttempt(i) == i = retries - 1

\* gdbrowserService.js line 57: 1000 * Math.pow(2, i)
BackoffDelay(i) == BaseDelay * (2 ^ i)

\* gdbrowserService.js lines 11-29 and 47-63: one attempt of
\* getLevelInfoWithRetry settles.  GDBrowser answers a request for a level
\* with the record of that level, with 404, or the request fails.
LookupSettles ==
  /\ pc = "lookup"
  /\ UNCHANGED outside
  /\ LET infl == Without(inflight, [call |-> "level", arg |-> lookupId]) IN
     \/ /\ last' = [call |-> "level", outcome |-> "ok"]
        /\ returned' = returned \cup
             {[call |-> "level", arg |-> lookupId, rec |-> LevelRecord(lookupId)]}
        /\ AfterLookup(Some(LevelRecord(lookupId)), infl, Marked(lookups, "hit"))
     \/ \E outcome \in {"notfound", "error"} :
        /\ last' = [call |-> "level", outcome |-> outcome]
        /\ returned' = returned
        /\ IF ~Propagates(outcome) \/ LastAttempt(attempt)
             THEN AfterLookup(None, infl, Marked(lookups, "absent"))
             ELSE /\ pc' = "backoff"
                  /\ waits' = Append(waits, BackoffDelay(attempt))
                  /\ inflight' = infl
                  /\ UNCHANGED <<idx, result, lookupId, caller, attempt,
                                 retries, directResult, searchVars, lookups,
                                 aiCalls, searched>>
  /\ UNCHANGED <<metadata, regexIds, aiResult>>

\* gdbrowserService.js lines 48-59: the backoff timer fires, next attempt
BackoffEnds ==
  /\ pc = "backoff"
  /\ UNCHANGED outside
  /\ pc' = "lookup"
  /\ attempt' = attempt + 1
  /\ inflight' = Append(inflight, [call |-> "level", arg |-> lookupId])
  /\ UNCHANGED <<metadata, regexIds, idx, aiResult, result, lookupId, caller,
                 waits, retries, directResult, searchVars, lookups, aiCalls,
                 searched, returned, last>>

\* line 202: the debug log reads aiResult.levelNames.join(', '); on a
\* value without levelNames that is a TypeError, caught at line 228
LogThrows(v) == ~v.hasNames

\* mutant: an identifier the regex stage tried is validated again
ShouldValidateAI_NoSkip(v, ids) ==
  /\ Truthy(v.levelId)
  /\ v.confidence # "low"

\* lines 205-207
ShouldValidateAI(v, ids) ==
  /\ Truthy(v.levelId)
  /\ v.confidence # "low"
  /\ ~Includes(ids, v.levelId)

\* mutant: the error of the semantic call is not caught
AIFailed_Propagates(infl) ==
  Throw(infl, lookups)

\* lines 228-260: the catch block around the semantic call, aiResult
\* still null
AIFailed(infl) ==
  Stage3(aiResult, Get(metadata), infl, lookups)

\* lines 195-260: the semantic call settles
AISettles ==
  /\ pc = "ai"
  /\ UNCHANGED outside
  /\ LET infl == Without(inflight, [call |-> "ai", arg |-> ""]) IN
     \/ /\ last' = [call |-> "ai", outcome |-> "error"]
        /\ aiResult' = aiResult
        /\ AIFailed(infl)
     \/ \E v \in SemanticValues :
          /\ last' = [call |-> "ai", outcome |-> "ok"]
          /\ aiResult' = Some(v)
          /\ IF LogThrows(v)
               THEN Stage3(Some(v), Get(metadata), infl, lookups)
               ELSE IF ShouldValidateAI(v, regexIds)
                 THEN CallLookup(v.levelId, "ai", infl, lookups)
                 ELSE Stage3(Some(v), Get(metadata), infl, lookups)
  /\ UNCHANGED <<metadata, regexIds, idx, returned>>

\* gdbrowserService.js lines 140-177: after a miss, the next string to
\* search, or null to the orchestrator (lines 250-269)
AfterMiss(infl) ==
  LET levelNames == Get(aiResult).levelNames
      uniqueVariations == UniqueVariations(levelNames)
  IN IF sIdx < Len(sList)
       THEN CallSearch(sPhase, sList, sIdx + 1, infl, lookups)
     ELSE IF sPhase = "names" /\ uniqueVariations # <<>>
       THEN CallSearch("variations", uniqueVariations, 1, infl, lookups)
     ELSE Finish(aiResult, Get(metadata), infl, lookups)

\* mutant: the error of a search leaves searchLevelByNameWithFallback
AfterSearchError_Throws(infl) == Throw(infl, lookups)

\* gdbrowserService.js lines 147-149 and 170-172: the catch blocks of the
\* two loops log the error, and the loop goes on as after a miss
AfterSearchError(infl) == AfterMiss(infl)

\* mutant: searchedNames reports the strings that were searched
NameSearchSuccess_ReportsSearched(levelInfo) ==
  Success(levelInfo.id, levelInfo, "name_search", aiResult,
          Some(searched), Get(metadata))

\* lines 240-249
NameSearchSuccess(levelInfo) ==
  Success(levelInfo.id, levelInfo, "name_search", aiResult,
          Some(Get(aiResult).levelNames), Get(metadata))

\* gdbrowserService.js lines 70-96 and 138-178, lines 237-255: one
\* searchLevelByName settles.  GDBrowser answers with a list whose first
\* element is some level, with an empty list, with 404, or the request fails.
SearchSettles ==
  /\ pc = "search"
  /\ UNCHANGED outside
  /\ LET name == sList[sIdx]
         infl == Without(inflight, [call |-> "search", arg |-> name]) IN
     \/ \E rec \in Records :
          /\ last' = [call |-> "search", outcome |-> "ok"]
          /\ returned' = returned \cup
               {[call |-> "search", arg |-> name, rec |-> rec]}
          /\ Return(NameSearchSuccess(rec), infl, lookups)
     \/ \E outcome \in {"empty", "notfound"} :
          /\ last' = [call |-> "search", outcome |-> outcome]
          /\ returned' = returned
          /\ AfterMiss(infl)
     \/ /\ last' = [call |-> "search", outcome |-> "error"]
        /\ returned' = returned
        /\ AfterSearchError(infl)
  /\ UNCHANGED <<metadata, regexIds, idx, aiResult>>

----------------------------------------------------------------------------
(* extractPotentialLevelIds called on its own, on any text of at most      *)
(* MaxTextLen tokens                                                       *)

\* digit runs of 5, 6, 7 and 8 digits
ExtractNums == {"12345", "100001", "7654321", "10565740"}

ExtractTokens ==
  [kind : Kinds \ {"word"}, num : ExtractNums] \cup {[kind |-> "word", num |-> ""]}

InitExtract ==
  /\ RunInit
  /\ NoLimiter
  /\ NoHandler
  /\ extractText \in SeqsUpTo(ExtractTokens, MaxTextLen)
  /\ extracted = None
  /\ nameArg = <<>>
  /\ variationsOut = None
  /\ authorityCall = "none"
  /\ response = NoResponse
  /\ settled = None

\* regexPatterns.js lines 33-64
ExtractIds ==
  /\ extracted = None
  /\ extracted' = Some(extractPotentialLevelIds(extractText))
  /\ UNCHANGED <<runVars, extractText, nameArg, variationsOut, authorityCall,
                 response, settled, limiterVars, handlerVars>>

NextExtract == ExtractIds

SpecExtract == InitExtract /\ [][NextExtract]_vars

----------------------------------------------------------------------------
(* generateNameVariations called on its own, on any name of at most        *)
(* MaxNameWords words                                                      *)

\* plain words, separators, a prefix word and a suffix word
NameWords ==
  {"Sunshine", "Slaughterhouse", "X", "and", Bar, "Verified", "Demon"}

InitVariations ==
  /\ RunInit
  /\ NoLimiter
  /\ NoHandler
  /\ extractText = <<>>
  /\ extracted = None
  /\ nameArg \in SeqsUpTo(NameWords, MaxNameWords)
  /\ variationsOut = None
  /\ authorityCall = "none"
  /\ response = NoResponse
  /\ settled = None

\* gdbrowserService.js lines 103-130
GenerateVariations ==
  /\ variationsOut = None
  /\ variationsOut' = Some(generateNameVariations(nameArg))
  /\ UNCHANGED <<runVars, extractText, extracted, nameArg, authorityCall,
                 response, settled, limiterVars, handlerVars>>

NextVariations == GenerateVariations

SpecVariations == InitVariations /\ [][NextVariations]_vars

----------------------------------------------------------------------------
(* getLevelInfo and searchLevelByName called on their own, on any way the  *)
(* request may settle                                                      *)

\* response.data of a 2xx response
Bodies ==
  {JsNull, [type |-> "empty", items |-> <<>>], [type |-> "string", items |-> <<>>]}
    \cup {JsObject(rec) : rec \in Records}
    \cup {JsArray(recs) : recs \in SeqsUpTo(Records, MaxResults)}

\* status codes of the responses axios rejects, with the -1 the code tests
ErrorStatuses == {404, -1, 400, 429, 500, 503}

Responses ==
  {[ok |-> TRUE, data |-> b, error |-> NoError] : b \in Bodies}
    \cup {[ok |-> FALSE, data |-> JsNull, error |-> HttpError(st)] :
            st \in ErrorStatuses}
    \cup {[ok |-> FALSE, data |-> JsNull, error |-> NetworkError]}

\* what the async function of a job settles with
Returned(value) == [how |-> "returned", value |-> value, error |-> NoError]
Threw(error) == [how |-> "threw", value |-> JsNull, error |-> error]

\* !response.data : null, undefined and the empty string are falsy
Falsy(data) == data.type \in {"null", "empty"}

\* Array.isArray(response.data)
IsArray(data) == data.type = "array"

\* line 21: error.response?.status === 404 || error.response?.status === -1
LevelNotFound(error) == error.hasResponse /\ error.status \in {404, -1}

\* mutant: every error of a search is taken for not found
SearchNotFound_AnyError(error) == TRUE

\* line 88: error.response?.status === 404
SearchNotFound(error) == error.hasResponse /\ error.status = 404

\* gdbrowserService.js lines 11-29
getLevelInfo(resp) ==
  IF resp.ok THEN Returned(resp.data)
  ELSE IF LevelNotFound(resp.error) THEN Returned(JsNull)
  ELSE Threw(resp.error)

\* gdbrowserService.js lines 70-96
searchLevelByName(resp) ==
  IF resp.ok
  THEN IF Falsy(resp.data) \/ ~IsArray(resp.data) \/ Len(resp.data.items) = 0
       THEN Returned(JsNull)
       ELSE Returned(JsObject(resp.data.items[1]))
  ELSE IF SearchNotFound(resp.error) THEN Returned(JsNull)
  ELSE Threw(resp.error)

InitAuthority ==
  /\ RunInit
  /\ NoLimiter
  /\ NoHandler
  /\ extractText = <<>>
  /\ extracted = None
  /\ nameArg = <<>>
  /\ variationsOut = None
  /\ authorityCall \in {"getLevelInfo", "searchLevelByName"}
  /\ response \in Responses
  /\ settled = None

\* the request settles and the function of the job returns or throws
AuthoritySettles ==
  /\ settled = None
  /\ settled' = Some(IF authorityCall = "getLevelInfo"
                     THEN getLevelInfo(response)
                     ELSE searchLevelByName(response))
  /\ UNCHANGED <<runVars, extractText, extracted, nameArg, variationsOut,
                 authorityCall, response, limiterVars, handlerVars>>

NextAuthority == AuthoritySettles

SpecAuthority == InitAuthority /\ [][NextAuthority]_vars

----------------------------------------------------------------------------
(* getLevelInfoWithRetry called on its own, with any retries of 1 to       *)
(* MaxRetries                                                              *)

\* gdbrowserService.js line 47: a caller awaits
\* getLevelInfoWithRetry(levelId, retries)
CallRetry ==
  /\ pc = "start"
  /\ UNCHANGED outside
  /\ \E id \in Ids, n \in 1..MaxRetries :
       CallLookupN(id, n, "direct", inflight, lookups)
  /\ UNCHANGED <<metadata, regexIds, idx, aiResult, returned, last>>

NextRetry ==
  \/ CallRetry
  \/ LookupSettles
  \/ BackoffEnds

SpecRetry == Init /\ [][NextRetry]_vars

----------------------------------------------------------------------------
(* The limiters of utils/rateLimiter.js.  Each is a Bottleneck limiter     *)
(* built from a reservoir refilled every reservoirRefreshInterval, a       *)
(* maxConcurrent and, for GDBrowser, a minTime.  The limiters share        *)
(* nothing, so one limiter is observed at a time, with MaxJobs calls of    *)
(* its schedule().                                                         *)

Deps == {"youtube", "openai", "gdbrowser"}

\* config.js lines 18-20: the default when the environment gives no number
DefaultRate(d) ==
  CASE d = "youtube" -> 50
    [] d = "openai" -> 20
    [] d = "gdbrowser" -> 30

\* config.js lines 18-20: parseInt(process.env....) || default
Rates(d) == (1..MaxSmallRate) \cup {DefaultRate(d)}

\* mutant: the GDBrowser limiter lets three jobs run
MaxConcurrent_Three(d) ==
  CASE d = "youtube" -> 5
    [] d = "openai" -> 3
    [] d = "gdbrowser" -> 3

\* maxConcurrent of the three limiters
MaxConcurrent(d) ==
  CASE d = "youtube" -> 5
    [] d = "openai" -> 3
    [] d = "gdbrowser" -> 2

\* mutant: no limiter has a minTime
MinTime_None(d) == 0

\* minTime: 2000 of gdbrowserLimiter; the others keep the default 0
MinTime(d) == IF d = "gdbrowser" THEN 2000 ELSE 0

\* reservoirRefreshInterval: 60 * 1000
ReservoirRefreshInterval == 60 * 1000

\* mutant: the reservoir starts with one token more than the rate
Reservoir_OneMore(rate) == rate + 1

\* reservoir: config.rateLimits[dep]
Reservoir(rate) == rate

\* mutant: a refresh leaves the reservoir empty
ReservoirRefreshAmount_Nothing(rate) == 0

\* reservoirRefreshAmount: config.rateLimits[dep]
ReservoirRefreshAmount(rate) == rate

\* the step in which time advances: minTime where there is one, else a
\* whole refresh interval
TickMs(d) == IF MinTime(d) > 0 THEN MinTime(d) ELSE ReservoirRefreshInterval

\* the calls of schedule() observed on limiter d
MaxJobs(d) == MaxConcurrent(d) + ExtraJobs

Max(a, b) == IF a >= b THEN a ELSE b

Queued == {k \in 1..Len(jobs) : jobs[k].st = "queued"}
\* admitted and not finished: waiting for minTime, or executing
InFlight == {k \in 1..Len(jobs) : jobs[k].st \in {"waiting", "executing"}}
Finished == {k \in 1..Len(jobs) : jobs[k].st = "done"}
Admitted == InFlight \cup Finished

InitLimiter ==
  /\ RunInit
  /\ NoExtract
  /\ NoHandler
  /\ dep \in Deps
  /\ capacity \in Rates(dep)
  /\ reservoir = Reservoir(capacity)
  /\ running = 0
  /\ jobs = <<>>
  /\ nextRequestIn = 0
  /\ clock = 0
  /\ windowAdmits = 0
  /\ released = <<>>
  /\ lastOutcome = "none"
  /\ sinceStart = MinTime(dep)

\* limiter.schedule(fn): the job joins the queue
Schedule ==
  /\ Len(jobs) < MaxJobs(dep)
  /\ jobs' = Append(jobs, [st |-> "queued", startIn |-> 0])
  /\ released' = Append(released, 0)
  /\ UNCHANGED <<runVars, extractVars, handlerVars, dep, capacity, reservoir, running,
                 nextRequestIn, clock, windowAdmits, lastOutcome, sinceStart>>

\* the limiter admits the job at the head of the queue: fewer than
\* maxConcurrent jobs are in flight and the reservoir holds a token.  The
\* job starts once minTime has passed since the start of the one before.
Admit ==
  /\ Queued # {}
  /\ running < MaxConcurrent(dep)
  /\ reservoir >= 1
  /\ LET k == CHOOSE q \in Queued : \A r \in Queued : q <= r IN
       jobs' = [jobs EXCEPT ![k] =
                  [st |-> IF nextRequestIn = 0 THEN "executing" ELSE "waiting",
                   startIn |-> nextRequestIn]]
  /\ running' = running + 1
  /\ reservoir' = reservoir - 1
  /\ windowAdmits' = windowAdmits + 1
  /\ nextRequestIn' = nextRequestIn + MinTime(dep)
  /\ sinceStart' = (IF nextRequestIn = 0 THEN 0 ELSE sinceStart)
  /\ UNCHANGED <<runVars, extractVars, handlerVars, dep, capacity, clock, released,
                 lastOutcome>>

\* the wait of an admitted job is over: its function is called
Start ==
  /\ \E k \in InFlight :
       /\ jobs[k].st = "waiting"
       /\ jobs[k].startIn = 0
       /\ jobs' = [jobs EXCEPT ![k].st = "executing"]
  /\ sinceStart' = 0
  /\ UNCHANGED <<runVars, extractVars, handlerVars, dep, capacity, reservoir, running,
                 nextRequestIn, clock, windowAdmits, released, lastOutcome>>

\* mutant: a job that throws keeps its permit
Release_NotOnThrow(k, outcome) ==
  /\ running' = (IF outcome = "threw" THEN running ELSE running - 1)
  /\ released' = [released EXCEPT ![k] =
                    IF outcome = "threw" THEN @ ELSE @ + 1]

\* the job gives its permit back
Release(k, outcome) ==
  /\ running' = running - 1
  /\ released' = [released EXCEPT ![k] = @ + 1]

\* the function of a job returns a value or throws (gdbrowserService.js
\* lines 12-28, 71-95; openaiService.js lines 24, 112)
JobEnds ==
  /\ \E k \in InFlight, outcome \in {"returned", "threw"} :
       /\ jobs[k].st = "executing"
       /\ jobs' = [jobs EXCEPT ![k].st = "done"]
       /\ lastOutcome' = outcome
       /\ Release(k, outcome)
  /\ UNCHANGED <<runVars, extractVars, handlerVars, dep, capacity, reservoir,
                 nextRequestIn, clock, windowAdmits, sinceStart>>

\* the waits once ms of time have passed
Elapsed(ms) ==
  /\ nextRequestIn' = Max(0, nextRequestIn - ms)
  /\ sinceStart' = (IF sinceStart + ms >= MinTime(dep) THEN MinTime(dep)
                    ELSE sinceStart + ms)
  /\ jobs' = [k \in 1..Len(jobs) |->
                [jobs[k] EXCEPT !.startIn = Max(0, @ - ms)]]

\* a job whose wait is over starts before time goes on
StartDue == \E k \in InFlight : jobs[k].st = "waiting" /\ jobs[k].startIn = 0

\* time passes within a reservoir window
Tick ==
  /\ ~StartDue
  /\ clock + TickMs(dep) < ReservoirRefreshInterval
  /\ clock' = clock + TickMs(dep)
  /\ Elapsed(TickMs(dep))
  /\ UNCHANGED <<runVars, extractVars, handlerVars, dep, capacity, reservoir, running,
                 windowAdmits, released, lastOutcome>>

\* time reaches the end of the reservoir window: the reservoir is set to
\* reservoirRefreshAmount
Refresh ==
  /\ ~StartDue
  /\ clock + TickMs(dep) >= ReservoirRefreshInterval
  /\ clock' = 0
  /\ reservoir' = ReservoirRefreshAmount(capacity)
  /\ windowAdmits' = 0
  /\ Elapsed(TickMs(dep))
  /\ UNCHANGED <<runVars, extractVars, handlerVars, dep, capacity, running, released,
                 lastOutcome>>

NextLimiter ==
  \/ Schedule
  \/ Admit
  \/ Start
  \/ JobEnds
  \/ Tick
  \/ Refresh

SpecLimiter == InitLimiter /\ [][NextLimiter]_vars

\* every enabled step of the limiter and of time is eventually taken, and
\* every job that was started finishes
SpecLimiterFair ==
  /\ SpecLimiter
  /\ WF_vars(Admit)
  /\ WF_vars(Start)
  /\ WF_vars(JobEnds)
  /\ WF_vars(Tick)
  /\ WF_vars(Refresh)

----------------------------------------------------------------------------
(* handleMessage (handlers/messageHandler.js) on one message.  The content *)
(* is a sequence of tokens: a YouTube URL, given by its video id, or       *)
(* other text.  A run of extractAndValidateLevelId is one awaited call     *)
(* here: it resolves to a success or a failure value, rejects, or never    *)
(* settles.                                                                *)

VideoRefs == {"v1", "v2", "v3", "v4"}
OtherText == "text"

Messages ==
  [bot : BOOLEAN, content : SeqsUpTo(VideoRefs \cup {OtherText}, MaxContent)]

IsVideoRef(t) == t \in VideoRefs

\* youtubeParser.js lines 15-24: the ids of the URLs, deduplicated
extractVideoIds(text) == Dedup(SelectSeq(text, IsVideoRef), {})

Min(a, b) == IF a <= b THEN a ELSE b

\* mutant: no limit on the videos of a message
VideosToProcess_All(ids) == ids

\* line 26: videoIds.slice(0, MAX_VIDEOS_PER_MESSAGE)
VideosToProcess(ids) == SubSeq(ids, 1, Min(MAX_VIDEOS_PER_MESSAGE, Len(ids)))

InitHandler ==
  /\ RunInit
  /\ NoExtract
  /\ NoLimiter
  /\ hPc = "received"
  /\ message \in Messages
  /\ videoIds = <<>>
  /\ hIdx = 0
  /\ started = <<>>
  /\ replied = <<>>
  /\ hResult = "none"

\* lines 28-29: the loop goes to video i, or lines 54-58 end the handler
ToVideo(i, ids) ==
  /\ hIdx' = i
  /\ hPc' = IF i <= Len(VideosToProcess(ids)) THEN "typing" ELSE "end"

\* lines 14-31: the handler is called with the message
Receive ==
  /\ hPc = "received"
  /\ IF message.bot \/ extractVideoIds(message.content) = <<>>
       THEN hPc' = "end" /\ UNCHANGED <<videoIds, hIdx>>
       ELSE /\ videoIds' = extractVideoIds(message.content)
            /\ ToVideo(1, extractVideoIds(message.content))
  /\ UNCHANGED <<runVars, extractVars, limiterVars, message, started, replied,
                 hResult>>

\* lines 31-33: sendTyping settles; on success the run of the video starts,
\* on failure the catch of line 49 goes to the next video
TypingSettles ==
  /\ hPc = "typing"
  /\ \/ /\ hPc' = "extracting"
        /\ started' = Append(started, VideosToProcess(videoIds)[hIdx])
        /\ UNCHANGED hIdx
     \/ /\ ToVideo(hIdx + 1, videoIds)
        /\ UNCHANGED started
  /\ UNCHANGED <<runVars, extractVars, limiterVars, message, videoIds, replied,
                 hResult>>

\* mutant: every result is replied to
ShouldReply_Always(res) == TRUE

\* line 35: if (result.success)
ShouldReply(res) == res = "success"

\* lines 33-52: the run of the video settles: a success value is replied
\* to, a failure value and a rejection are only logged
RunSettles ==
  /\ hPc = "extracting"
  /\ \E outcome \in {"success", "failure", "threw"} :
       IF outcome # "threw" /\ ShouldReply(outcome)
         THEN hPc' = "replying" /\ hResult' = outcome /\ UNCHANGED hIdx
         ELSE ToVideo(hIdx + 1, videoIds) /\ hResult' = "none"
  /\ UNCHANGED <<runVars, extractVars, limiterVars, message, videoIds, started,
                 replied>>

\* an external call of the run never returns: the run never settles
RunHangs ==
  /\ hPc = "extracting"
  /\ hPc' = "hung"
  /\ UNCHANGED <<runVars, extractVars, limiterVars, message, videoIds, hIdx,
                 started, replied, hResult>>

\* lines 41-42 and 49-52: message.reply settles
ReplySettles ==
  /\ hPc = "replying"
  /\ \/ replied' = Append(replied, VideosToProcess(videoIds)[hIdx])
     \/ replied' = replied
  /\ ToVideo(hIdx + 1, videoIds)
  /\ hResult' = "none"
  /\ UNCHANGED <<runVars, extractVars, limiterVars, message, videoIds, started>>

NextHandler ==
  \/ Receive
  \/ TypingSettles
  \/ RunSettles
  \/ RunHangs
  \/ ReplySettles

SpecHandler == InitHandler /\ [][NextHandler]_vars

\* every call that settles is taken up; a run may hang
SpecHandlerFair ==
  /\ SpecHandler
  /\ WF_vars(Receive)
  /\ WF_vars(TypingSettles)
  /\ WF_vars(RunSettles \/ RunHangs)
  /\ WF_vars(ReplySettles)

----------------------------------------------------------------------------
Next ==
  \/ StartRun
  \/ MetadataSettles
  \/ LookupSettles
  \/ BackoffEnds
  \/ AISettles
  \/ SearchSettles

Spec == Init /\ [][Next]_vars

\* every external call of the run eventually settles and every backoff
\* timer eventually fires
SpecFair == Spec /\ WF_vars(Next)

----------------------------------------------------------------------------
(* Vocabulary of the claims *)

Terminal == pc \in {"done", "threw"}
Succeeded == result # None /\ Get(result).success
Failed(error) == result # None /\ ~Get(result).success /\ Get(result).error = error

\* the positions of the lookup history made by a stage
LookupsOf(stage) == {k \in 1..Len(lookups) : lookups[k].stage = stage}

----------------------------------------------------------------------------
(* C1 *)

\* C1: whatever the external calls answer, the run ends by returning a
\* result value; no exception ever escapes extractAndValidateLevelId.
C1_NoExceptionEscapes ==
  /\ pc # "threw"
  /\ pc = "done" =>
       \/ Succeeded
       \/ Failed("VIDEO_NOT_FOUND")
       \/ Failed("NO_LEVEL_ID_FOUND")

----------------------------------------------------------------------------
(* C2 *)

MetadataMissing == last.call = "metadata" /\ last.outcome \in {"null", "error"}

\* C2: when the metadata fetch returns absent or throws, the run has ended
\* with Failure VIDEO_NOT_FOUND without metadata, and no lookup, semantic
\* call or name search was made or is in flight.
C2_MetadataFailureEndsRun ==
  MetadataMissing =>
    /\ pc = "done"
    /\ result = Some(Failure("VIDEO_NOT_FOUND", None))
    /\ metadata = None
    /\ lookups = <<>>
    /\ aiCalls = 0
    /\ searched = <<>>
    /\ inflight = <<>>

C2_Witness == MetadataMissing /\ last.outcome = "error" /\ pc = "done"

----------------------------------------------------------------------------
(* C3 *)

\* C3: a Success is returned only for a record GDBrowser returned in this
\* run: at stage regex or ai a lookup of exactly result.levelId returned
\* result.levelInfo; at stage name_search a search returned
\* result.levelInfo and result.levelId is the id of that record.
C3_SuccessIsValidated ==
  Succeeded =>
    LET r == Get(result) IN
      /\ r.stage \in {"regex", "ai", "name_search"}
      /\ r.levelInfo # None
      /\ r.stage \in {"regex", "ai"} =>
           [call |-> "level", arg |-> r.levelId, rec |-> Get(r.levelInfo)]
             \in returned
      /\ r.stage = "name_search" =>
           /\ \E h \in returned : h.call = "search" /\ h.rec = Get(r.levelInfo)
           /\ r.levelId = Get(r.levelInfo).id

C3_Witness ==
  /\ Succeeded
  /\ Get(result).stage = "regex"
  /\ Len(regexIds) >= 2
  /\ Get(result).levelId = regexIds[2]

----------------------------------------------------------------------------
(* C4 *)

\* C4: the regex candidates are validated one at a time in the order of
\* regexIds: the k-th lookup of the stage is of regexIds[k] and is made only
\* after the lookups of the candidates before it returned absent; a hit is
\* the last lookup of the run and ends it with Success at stage regex for
\* that candidate.
C4_CandidatesInOrder ==
  \A k \in LookupsOf("regex") :
    /\ k <= Len(regexIds)
    /\ lookups[k].id = regexIds[k]
    /\ \A j \in 1..(k - 1) :
         lookups[j].stage = "regex" /\ lookups[j].res = "absent"
    /\ lookups[k].res = "hit" =>
         /\ k = Len(lookups)
         /\ pc = "done"
         /\ Succeeded
         /\ Get(result).stage = "regex"
         /\ Get(result).levelId = regexIds[k]
         /\ Get(result).levelInfo = Some(LevelRecord(regexIds[k]))

C4_Witness ==
  /\ Len(lookups) = 2
  /\ lookups[1].res = "absent"
  /\ lookups[2].stage = "regex"
  /\ lookups[2].res = "hit"

----------------------------------------------------------------------------
(* C5 *)

----------------------------------------------------------------------------
(* C6 *)

\* the semantic call resolved to an identifier of confidence high or
\* medium that the regex stage did not try
SemanticIdToValidate ==
  /\ aiResult # None
  /\ Truthy(Get(aiResult).levelId)
  /\ Get(aiResult).confidence \in {"high", "medium"}
  /\ ~Includes(regexIds, Get(aiResult).levelId)

\* C6: whenever the semantic call resolved to an identifier of confidence
\* high or medium that was not a regex candidate, getLevelInfoWithRetry is
\* called on it, and if it returns a record the run ends with Success at
\* stage ai with that identifier, the confidence and the reasoning.
C6_SemanticIdIsValidated ==
  SemanticIdToValidate =>
    \E k \in LookupsOf("ai") :
      /\ lookups[k].id = Get(aiResult).levelId
      /\ lookups[k].res = "hit" =>
           /\ pc = "done"
           /\ result = Some(Success(Get(aiResult).levelId,
                                    LevelRecord(Get(aiResult).levelId), "ai",
                                    aiResult, None, Get(metadata)))

----------------------------------------------------------------------------
(* C7 *)

----------------------------------------------------------------------------
(* C8 *)

----------------------------------------------------------------------------
(* C9 *)

----------------------------------------------------------------------------
(* C10 *)

\* the strings searchLevelByNameWithFallback goes through, in order
SearchOrder ==
  Get(aiResult).levelNames \o UniqueVariations(Get(aiResult).levelNames)

\* C10: a failed semantic call does not abort the run: no semantic result
\* exists, the name search is skipped and the run ends with Failure
\* NO_LEVEL_ID_FOUND; a lookup that fails is retried and, once the attempts
\* are used up, counts as absent and the run goes on with the next
\* candidate or stage; a search that fails counts as a miss and the run
\* goes on with the next string or ends with NO_LEVEL_ID_FOUND.
C10_FailuresAreAbsorbed ==
  /\ last = [call |-> "ai", outcome |-> "error"] =>
       /\ pc = "done"
       /\ aiResult = None
       /\ searched = <<>>
       /\ result = Some(Failure("NO_LEVEL_ID_FOUND", metadata))
  /\ last = [call |-> "level", outcome |-> "error"] =>
       \/ pc = "backoff"
       \/ pc = "lookup" /\ attempt > 0
       \/ /\ pc = "lookup" /\ attempt = 0
          /\ Len(lookups) >= 2
          /\ lookups[Len(lookups) - 1].res = "absent"
          /\ lookups[Len(lookups)].id = regexIds[idx]
       \/ /\ pc \in {"ai", "search"}
          /\ lookups[Len(lookups)].res = "absent"
       \/ /\ pc = "done"
          /\ lookups[Len(lookups)].res = "absent"
          /\ Failed("NO_LEVEL_ID_FOUND")
  /\ last = [call |-> "search", outcome |-> "error"] =>
       /\ Len(searched) <= Len(SearchOrder)
       /\ searched = SubSeq(SearchOrder, 1, Len(searched))
       /\ \/ pc = "search" /\ Len(searched) >= 2
          \/ /\ pc = "done"
             /\ Failed("NO_LEVEL_ID_FOUND")
             /\ searched = SearchOrder

C10_Witness ==
  /\ last = [call |-> "ai", outcome |-> "error"]
  /\ pc = "done"
  /\ Len(lookups) = 2

----------------------------------------------------------------------------
(* C11 *)

\* C11: a run that fetched metadata and in which no authority call returned
\* a record ends by returning Failure NO_LEVEL_ID_FOUND with the fetched
\* metadata attached; and NO_LEVEL_ID_FOUND is never returned in a run in
\* which an authority call returned a record.
C11_ExhaustionIsNotFound ==
  /\ (Terminal /\ metadata # None /\ returned = {}) =>
       /\ pc = "done"
       /\ result = Some(Failure("NO_LEVEL_ID_FOUND", metadata))
  /\ Failed("NO_LEVEL_ID_FOUND") => returned = {}

----------------------------------------------------------------------------
(* C18 *)

\* the position of the first occurrence of v in xs
FirstIndex(xs, v) ==
  CHOOSE i \in 1..Len(xs) : xs[i] = v /\ \A j \in 1..(i - 1) : xs[j] # v

\* the records the name searches of the run returned
SearchHits == {r \in returned : r.call = "search"}

----------------------------------------------------------------------------
(* C19 *)

----------------------------------------------------------------------------
(* C20 *)

\* the digit runs of text that a strict pattern captures
StrictCaptures(text) ==
  {text[i].num : i \in {j \in 1..Len(text) :
      \/ MatchLabel(text[j]) \/ MatchParen(text[j])
      \/ MatchHash(text[j]) \/ MatchStandalone(text[j])}}

\* the bare digit runs of text of 6 or 7 digits
BareLoose(text) ==
  {text[i].num : i \in {j \in 1..Len(text) :
      text[j].kind = "bare" /\ Len(text[j].num) \in 6..7}}

\* C20: extractPotentialLevelIds applies the loose 6-7 digit pattern exactly
\* when no strict pattern matched: when a strict pattern matches, the output
\* holds the strict captures only (a bare 6-7 digit run that no strict
\* pattern captured is not returned); when none matches, the output holds
\* the loose captures, among them every bare 6-7 digit token.
C20_LooseOnlyWithoutStrict ==
  extracted # None =>
    LET out == Range(Get(extracted))
        strict == StrictCaptures(extractText)
    IN /\ strict # {} => out = strict
       /\ strict = {} =>
            /\ BareLoose(extractText) \subseteq out
            /\ out = Range(Scan(5, extractText))

C20_Witness ==
  /\ extracted # None
  /\ StrictCaptures(extractText) # {}
  /\ BareLoose(extractText) \ StrictCaptures(extractText) # {}
  /\ Range(Get(extracted)) = StrictCaptures(extractText)

----------------------------------------------------------------------------
(* C12 *)

\* C12: getLevelInfoWithRetry never throws and makes at most retries
\* attempts; the k-th wait is 1000 * 2^(k-1) ms; a call whose attempts all
\* fail returns absent after exactly retries attempts with no wait after the
\* last one (for retries 3: waits of 1000 then 2000 ms); a call that
\* succeeds, also after two failures, returns the record it received.
C12_RetryWithBackoff ==
  /\ pc # "threw"
  /\ attempt + 1 <= retries
  /\ \A k \in 1..Len(waits) : waits[k] = 1000 * (2 ^ (k - 1))
  /\ pc = "returned" =>
       /\ last = [call |-> "level", outcome |-> "ok"] =>
            directResult = Some(Some(LevelRecord(lookupId)))
       /\ last = [call |-> "level", outcome |-> "error"] =>
            /\ directResult = Some(None)
            /\ attempt + 1 = retries
            /\ Len(waits) = retries - 1
            /\ retries = 3 => waits = <<1000, 2000>>

C12_Witness ==
  /\ pc = "returned"
  /\ retries = 3
  /\ last = [call |-> "level", outcome |-> "error"]
  /\ waits = <<1000, 2000>>

----------------------------------------------------------------------------
(* C13 *)

\* C13: getLevelInfoWithRetry makes another attempt only after an attempt
\* ended in a propagated transport error: a record or a clean not-found
\* ends the call at once with that answer, every attempt but the first
\* follows a transport error and its wait, and the attempts made are one
\* more than the transport errors before the last attempt, never more than
\* retries.
C13_RetryOnlyAfterError ==
  pc \in {"lookup", "backoff", "returned"} =>
    /\ pc = "backoff" =>
         /\ last = [call |-> "level", outcome |-> "error"]
         /\ Len(waits) = attempt + 1
    /\ (pc = "lookup" /\ attempt > 0) =>
         /\ last = [call |-> "level", outcome |-> "error"]
         /\ Len(waits) = attempt
    /\ last = [call |-> "level", outcome |-> "notfound"] =>
         pc = "returned" /\ directResult = Some(None)
    /\ last = [call |-> "level", outcome |-> "ok"] =>
         pc = "returned" /\ directResult # Some(None)
    /\ pc = "returned" => Len(waits) = attempt /\ attempt < retries

C13_Witness ==
  /\ pc = "returned"
  /\ last = [call |-> "level", outcome |-> "notfound"]
  /\ attempt = 1
  /\ retries = 3

----------------------------------------------------------------------------
(* C14 *)

\* the concurrency bound the claim gives for each limiter
ClaimedBound ==
  CASE dep = "youtube" -> 5
    [] dep = "openai" -> 3
    [] dep = "gdbrowser" -> 2

\* C14: on each limiter the jobs in flight never exceed the concurrency
\* bound (5 for YouTube, 3 for OpenAI, 2 for GDBrowser), and a job beyond
\* the first N is admitted only after an earlier job gave its permit back.
C14_ConcurrencyBound ==
  dep \in Deps =>
    /\ Cardinality(InFlight) <= ClaimedBound
    /\ running <= ClaimedBound
    /\ \A k \in Admitted :
         k > ClaimedBound => \E j \in Finished : j < k

C14_Witness ==
  /\ dep = "youtube"
  /\ Cardinality(InFlight) = 5
  /\ 6 \in InFlight
  /\ Cardinality(Finished) = 1

----------------------------------------------------------------------------
(* C15 *)

\* C15: every admitted job gives its permit back exactly once, when it
\* finishes, whether its function returned or threw, and not before; the
\* limiter's in-flight counter equals the number of jobs admitted and not
\* yet finished.
C15_PermitReleasedOnce ==
  dep \in Deps =>
    /\ running = Cardinality(InFlight)
    /\ \A k \in 1..Len(jobs) :
         released[k] = (IF k \in Finished THEN 1 ELSE 0)

C15_Witness ==
  /\ dep = "gdbrowser"
  /\ lastOutcome = "threw"
  /\ Cardinality(Finished) = 2
  /\ running = 1

----------------------------------------------------------------------------
(* C16 *)

\* C16: the reservoir stays between 0 and the configured capacity; it
\* holds the capacity less one token for each job admitted since it was
\* last filled, so every admission takes exactly one token, every window
\* boundary sets it to exactly the capacity, and a window of 60 s admits at
\* most capacity jobs.
C16_ReservoirWindow ==
  dep \in Deps =>
    /\ reservoir \in 0..capacity
    /\ reservoir = capacity - windowAdmits
    /\ windowAdmits <= capacity
    /\ clock < 60000

C16_Witness ==
  /\ dep \in Deps
  /\ Cardinality(Admitted) > capacity
  /\ reservoir = 0

----------------------------------------------------------------------------
(* C17 *)

\* C17: admission never rejects, a job leaves the queue only by being
\* admitted, and when time passes, steps of the limiter are taken and
\* started jobs finish, every queued job is eventually admitted: whenever
\* jobs are queued, a later state has all of them admitted.
C17_AdmissionEventuallySucceeds ==
  /\ [][\A k \in Queued : k \in Queued' \/ k \in Admitted']_vars
  /\ (Queued # {}) ~> (Queued = {} /\ Admitted = 1..Len(jobs))

C17_Witness ==
  /\ dep = "gdbrowser"
  /\ capacity = 1
  /\ Cardinality(Admitted) = 3
  /\ Queued = {}

----------------------------------------------------------------------------
(* C21 *)

\* the positions of extractText that hold a labeled mention "ID: num" with
\* a number of 6 to 9 digits
LabeledMentions ==
  {i \in 1..Len(extractText) :
     extractText[i].kind = "label" /\ Len(extractText[i].num) \in 6..9}

\* C21: when the text holds a labeled mention "ID: num", the first element
\* of extractPotentialLevelIds(text) is the number of the first such
\* mention, whatever other digit runs (parenthesised, hashed, bare or after
\* a word that ends in id) stand before or after it.
C21_LabeledMentionFirst ==
  (extracted # None /\ LabeledMentions # {}) =>
    LET i == CHOOSE m \in LabeledMentions : \A n \in LabeledMentions : m <= n
    IN /\ Get(extracted) # <<>>
       /\ Get(extracted)[1] = extractText[i].num

----------------------------------------------------------------------------
(* C22 *)

\* every capture of the scan of text, in pattern priority and then text
\* order: the strict patterns, or the loose one when they capture nothing
CaptureScan(text) ==
  LET strict == Scan(1, text) \o Scan(2, text) \o Scan(3, text) \o Scan(4, text)
  IN IF strict # <<>> THEN strict ELSE Scan(5, text)

\* C22: the output of extractPotentialLevelIds holds no candidate twice,
\* every element is a run of 6 to 9 digits, and the output holds exactly
\* the captures of the scan, each once, ordered by its first occurrence in
\* the pattern-priority-then-text-order scan.
C22_DedupFirstOccurrence ==
  extracted # None =>
    LET out == Get(extracted)
        scan == CaptureScan(extractText)
    IN /\ \A i, j \in 1..Len(out) : i # j => out[i] # out[j]
       /\ \A i \in 1..Len(out) : Len(out[i]) \in 6..9
       /\ Range(out) = Range(scan)
       /\ \A i, j \in 1..Len(out) :
            i < j => FirstIndex(scan, out[i]) < FirstIndex(scan, out[j])

C22_Witness ==
  /\ extracted # None
  /\ Len(Get(extracted)) = 2
  /\ Len(CaptureScan(extractText)) = 4
  /\ CaptureScan(extractText)[1] = CaptureScan(extractText)[3]

----------------------------------------------------------------------------
(* C23 *)

\* the parts levelName.split(sep).map(trim) gives for each separator that
\* levelName includes
SplitPartsOf(levelName) ==
  UNION {Range(SplitSpaced(levelName, SpacedSeparators[k], 1, <<>>, TRUE)) :
           k \in {n \in 1..Len(SpacedSeparators) :
                    IncludesSpaced(levelName, SpacedSeparators[n])}}
  \cup (IF Includes(levelName, Bar)
          THEN Range(SplitBar(levelName, 1, <<>>)) ELSE {})

\* C23 as stated: generateNameVariations(name) has the original name as
\* its first element, holds no duplicates and no empty strings, and holds
\* every trimmed part of the split on every separator present in the name.
C23_AsStated ==
  variationsOut # None =>
    LET out == Get(variationsOut) IN
    /\ out # <<>>
    /\ out[1] = nameArg
    /\ \A i, j \in 1..Len(out) : i # j => out[i] # out[j]
    /\ \A i \in 1..Len(out) : out[i] # <<>>
    /\ SplitPartsOf(nameArg) \subseteq Range(out)

\* C23 amended: generateNameVariations(name) holds no duplicates and no
\* empty strings; unless the name is empty the original name is its first
\* element (for the empty name the output is empty); it holds every
\* non-empty trimmed part of the split on every separator present in the
\* name; "Sunshine X Slaughterhouse" yields itself, "Sunshine" and
\* "Slaughterhouse".
C23_Variations ==
  variationsOut # None =>
    LET out == Get(variationsOut) IN
    /\ nameArg # <<>> => (out # <<>> /\ out[1] = nameArg)
    /\ nameArg = <<>> => out = <<>>
    /\ \A i, j \in 1..Len(out) : i # j => out[i] # out[j]
    /\ \A i \in 1..Len(out) : out[i] # <<>>
    /\ (SplitPartsOf(nameArg) \ {<<>>}) \subseteq Range(out)
    /\ nameArg = <<"Sunshine", "X", "Slaughterhouse">> =>
         out = <<nameArg, <<"Sunshine">>, <<"Slaughterhouse">> >>

C23_Witness ==
  /\ nameArg = <<"Sunshine", Bar>>
  /\ variationsOut = Some(<<nameArg, <<"Sunshine">> >>)

----------------------------------------------------------------------------
(* C24 *)

\* the videos the content of the message refers to before position i
VideosBefore(i) ==
  {message.content[j] : j \in {k \in 1..(i - 1) : IsVideoRef(message.content[k])}}

\* the videos of the message that fewer than 3 other videos precede
WithinCap ==
  {message.content[i] : i \in {k \in 1..Len(message.content) :
      /\ IsVideoRef(message.content[k])
      /\ Cardinality(VideosBefore(k) \ {message.content[k]}) < 3}}

\* C24: for one message at most 3 runs are started, each for a different
\* video among the first 3 distinct video references, in their order of
\* appearance; no run is ever started for a reference beyond the cap; a
\* message of a bot or without a video reference starts no run.
C24_AtMostThreeVideos ==
  hPc # "none" =>
    /\ Len(started) <= 3
    /\ Range(started) \subseteq WithinCap
    /\ \A i, j \in 1..Len(started) :
         i < j => FirstIndex(message.content, started[i])
                    < FirstIndex(message.content, started[j])
    /\ (message.bot \/ VideosBefore(Len(message.content) + 1) = {}) =>
         /\ started = <<>>
         /\ hPc \in {"received", "end"}

C24_Witness ==
  /\ hPc = "end"
  /\ Cardinality(VideosBefore(Len(message.content) + 1)) = 4
  /\ Len(started) = 3

----------------------------------------------------------------------------
(* C25 *)

\* C25: a run whose external call never returns stalls only itself: every
\* other video reference of the same message within the cap still gets its
\* run and the result of it, so once a run hangs the loop eventually has
\* been through all the other videos of the message.
C25_HungRunStallsOnlyItself ==
  (hPc = "hung") ~>
    (\A k \in 1..Len(VideosToProcess(videoIds)) : k # hIdx => k < hIdx)

----------------------------------------------------------------------------
(* C26 *)

\* C26: when every external call eventually returns, the run makes a
\* bounded number of external calls (at most 3 attempts per lookup, at most
\* one lookup per regex candidate and one for the semantic identifier, at
\* most one semantic call, at most names + variations searches), it ends
\* with exactly one result that is a Success, VIDEO_NOT_FOUND or
\* NO_LEVEL_ID_FOUND, the result never changes, and after the end no
\* external call is in flight.
C26_RunTerminatesWithOneResult ==
  /\ [](/\ attempt < 3
        /\ Len(lookups) <= Len(regexIds) + 1
        /\ aiCalls <= 1
        /\ searched # <<>> => Len(searched) <= Len(SearchOrder)
        /\ Terminal => inflight = <<>>)
  /\ [][result # None => result' = result]_vars
  /\ <>(/\ pc = "done"
        /\ \/ Succeeded
           \/ Failed("VIDEO_NOT_FOUND")
           \/ Failed("NO_LEVEL_ID_FOUND"))

----------------------------------------------------------------------------
(* C27 *)

\* the permits the run holds on limiter d: one for each call in flight
\* that was scheduled on d
PermitsHeld(d) ==
  Cardinality({i \in 1..Len(inflight) : LimiterOf(inflight[i]) = d})

\* C27: every external call of the run is made as a job of the limiter of
\* its dependency: the metadata fetch on the YouTube limiter, the semantic
\* call on the OpenAI limiter, every lookup attempt and every name search
\* on the GDBrowser limiter; while a call is awaited the run holds exactly
\* that one permit, every attempt of getLevelInfoWithRetry holds a permit
\* of its own, and during the backoff wait and outside the calls the run
\* holds no permit.
C27_CallsInsideOwnLimiter ==
  /\ pc = "metadata" =>
       /\ inflight = <<[call |-> "metadata", arg |-> ""]>>
       /\ PermitsHeld("youtube") = 1
  /\ pc = "ai" =>
       /\ inflight = <<[call |-> "ai", arg |-> ""]>>
       /\ PermitsHeld("openai") = 1
  /\ pc = "lookup" =>
       /\ inflight = <<[call |-> "level", arg |-> lookupId]>>
       /\ PermitsHeld("gdbrowser") = 1
  /\ pc = "search" =>
       /\ inflight = <<[call |-> "search", arg |-> sList[sIdx]]>>
       /\ PermitsHeld("gdbrowser") = 1
  /\ pc \in {"start", "backoff", "done", "threw"} =>
       \A d \in Deps : PermitsHeld(d) = 0

C27_Witness ==
  /\ pc = "lookup"
  /\ attempt = 2
  /\ waits = <<1000, 2000>>
  /\ PermitsHeld("gdbrowser") = 1

----------------------------------------------------------------------------
(* C28 *)

\* job k starts in this step: its function is called
Starts(k) == jobs[k].st # "executing" /\ jobs'[k].st = "executing"

\* C28: on the GDBrowser limiter a job starts no sooner than 2000 ms after
\* the job before it started, whatever the reservoir and the free slots
\* allow; the YouTube and OpenAI limiters never delay a job they admitted.
C28_GDBrowserStartSpacing ==
  [][/\ \A k \in 1..Len(jobs) :
          Starts(k) /\ dep = "gdbrowser" /\ (\E j \in Admitted : j # k)
            => sinceStart >= 2000
     /\ dep \in {"youtube", "openai"} =>
          /\ nextRequestIn' = 0
          /\ \A k \in 1..Len(jobs') : jobs'[k].st # "waiting"]_vars

\* a second GDBrowser job was admitted with a token and a slot free, and
\* waits for the 2000 ms since the start of the first to pass
C28_Witness ==
  /\ dep = "gdbrowser"
  /\ Len(jobs) = 2
  /\ jobs[1].st = "executing"
  /\ jobs[2] = [st |-> "waiting", startIn |-> 2000]
  /\ reservoir >= 1
  /\ sinceStart = 0

----------------------------------------------------------------------------
(* C29 *)

\* a network error, a timeout or a status other than the not-found ones
TransportError(error) ==
  ~error.hasResponse \/ error.status \notin {404, -1}

\* C29: getLevelInfo returns the response body on success, absent (null)
\* on a 404 or a -1 status, and throws the error otherwise;
\* searchLevelByName returns the first element of a non-empty result
\* list, absent when the body is missing, not a list or empty and on a
\* 404, and throws the error otherwise; neither returns absent on a
\* transport error.
C29_OutcomeClassification ==
  settled # None =>
    LET out == Get(settled)
        data == response.data
        error == response.error IN
    /\ authorityCall = "getLevelInfo" =>
         /\ response.ok => out = Returned(data)
         /\ ~response.ok /\ error \in {HttpError(404), HttpError(-1)} =>
              out = Returned(JsNull)
         /\ ~response.ok /\ error \notin {HttpError(404), HttpError(-1)} =>
              out = Threw(error)
    /\ authorityCall = "searchLevelByName" =>
         /\ response.ok /\ data.type = "array" /\ Len(data.items) >= 1 =>
              out = Returned(JsObject(Head(data.items)))
         /\ response.ok /\ data.type = "array" /\ Len(data.items) = 0 =>
              out = Returned(JsNull)
         /\ response.ok /\ data.type # "array" => out = Returned(JsNull)
         /\ ~response.ok /\ error = HttpError(404) => out = Returned(JsNull)
         /\ ~response.ok /\ error # HttpError(404) => out = Threw(error)
    /\ ~response.ok /\ TransportError(error) => out.how = "threw"

\* a search answered with a server error throws that error
C29_Witness ==
  /\ authorityCall = "searchLevelByName"
  /\ response.error = HttpError(503)
  /\ settled = Some(Threw(HttpError(503)))

----------------------------------------------------------------------------
(* C30 *)

----------------------------------------------------------------------------
(* C31 *)

----------------------------------------------------------------------------
(* C32 *)

\* C32: handleMessage goes through the selected video references one after
\* another, in order; when the typing indicator, the run or the reply of a
\* reference raises an error, the loop goes on with the next reference, so
\* the handler ends only after the last selected reference; a reference is
\* replied to at most once, and only when its run resolved to a Success.
C32_SequentialErrorsCaughtReplyOnSuccess ==
  /\ [](hPc \notin {"none", "received"} =>
         LET selected == VideosToProcess(videoIds) IN
         /\ hPc \in {"extracting", "replying", "hung"} =>
              started[Len(started)] = selected[hIdx]
         /\ hPc = "replying" => hResult = "success"
         /\ \A i, j \in 1..Len(replied) : i # j => replied[i] # replied[j]
         /\ Range(replied) \subseteq Range(started)
         /\ (hPc = "end" /\ videoIds # <<>>) => hIdx = Len(selected) + 1)
  /\ [][LET selected == VideosToProcess(videoIds) IN
        /\ hPc \in {"typing", "extracting", "replying"} =>
             /\ hIdx' \in {hIdx, hIdx + 1}
             /\ hIdx' = hIdx + 1 =>
                  hPc' = IF hIdx < Len(selected) THEN "typing" ELSE "end"
        /\ (hPc = "typing" /\ started' = started) => hIdx' = hIdx + 1
        /\ (hPc = "extracting" /\ hPc' \notin {"replying", "hung"}) =>
             hIdx' = hIdx + 1
        /\ hPc = "replying" => hIdx' = hIdx + 1
        /\ replied' # replied =>
             /\ hPc = "replying"
             /\ hResult = "success"
             /\ replied' = Append(replied, selected[hIdx])]_vars

\* the typing indicator of the first of three references failed, the
\* second got its run and no reply, the third was replied to
C32_Witness ==
  /\ hPc = "end"
  /\ Len(VideosToProcess(videoIds)) = 3
  /\ started = SubSeq(videoIds, 2, 3)
  /\ replied = <<videoIds[3]>>

====
